---- MODULE Spec2Model ----
(***************************************************************************)
(* Model of the conversation session layer of the ChatBot server:         *)
(* the onRequest token hook, POST /chat and GET /chat over the messages   *)
(* table (server/routes/chat.js), and the embedded-metadata decode.       *)
(*                                                                         *)
(* Text is a sequence of one-character strings, indexed from 0 as in the  *)
(* JavaScript source (the TLA+ sequence position is the index plus one).  *)
(***************************************************************************)
EXTENDS Integers, Sequences, FiniteSets, TLC

\* ------------------------------------------------------------------------
\* Text primitives (String.prototype methods used by chat.js)
\* ------------------------------------------------------------------------

METADATA_START == <<"M","E","T","A","D","A","T","A","_","S","T","A","R","T",":">>

METADATA_END == <<":","M","E","T","A","D","A","T","A","_","E","N","D">>

\* The offset added to metaStart: the length of "METADATA_START:".
StartLen == 15

\* The offset added to metaEnd: the length of ":METADATA_END".
EndLen == 13

MinOf(S) == CHOOSE x \in S : \A y \in S : x <= y

MaxOf(S) == CHOOSE x \in S : \A y \in S : y <= x

Clamp(n, lo, hi) == IF n < lo THEN lo ELSE IF n > hi THEN hi ELSE n

\* text.indexOf(pat): the 0-based index of the first occurrence, or -1.
IndexOf(text, pat) ==
    LET hits == { i \in 0..(Len(text) - Len(pat)) :
                    SubSeq(text, i + 1, i + Len(pat)) = pat }
    IN  IF hits = {} THEN -1 ELSE MinOf(hits)

\* text.slice(from, to): negative arguments count from the end; an empty
\* result when from >= to.
Slice(text, from, to) ==
    LET n == Len(text)
        a == IF from < 0 THEN Clamp(n + from, 0, n) ELSE Clamp(from, 0, n)
        b == IF to < 0 THEN Clamp(n + to, 0, n) ELSE Clamp(to, 0, n)
    IN  IF a >= b THEN << >> ELSE SubSeq(text, a + 1, b)

\* text.substring(from, to): arguments clamped to [0, length] and swapped
\* when from > to.
Substring(text, from, to) ==
    LET n == Len(text)
        a == Clamp(from, 0, n)
        b == Clamp(to, 0, n)
        lo == IF a <= b THEN a ELSE b
        hi == IF a <= b THEN b ELSE a
    IN  SubSeq(text, lo + 1, hi)

\* text.substring(from): to the end of the text.
SubstringFrom(text, from) == Substring(text, from, Len(text))

\* The white space String.prototype.trim removes (of the model's alphabet).
WhiteSpace == {" ", "\n", "\t", "\r"}

\* text.trim()
Trim(text) ==
    LET keep == { i \in 1..Len(text) : text[i] \notin WhiteSpace }
    IN  IF keep = {} THEN << >> ELSE SubSeq(text, MinOf(keep), MaxOf(keep))

RECURSIVE ReplaceAll(_, _, _)
\* text.replace(/pat/g, rep) for a literal pattern: leftmost matches, left to
\* right, not overlapping.
ReplaceAll(text, pat, rep) ==
    IF Len(text) < Len(pat) THEN text
    ELSE IF SubSeq(text, 1, Len(pat)) = pat
         THEN rep \o ReplaceAll(SubSeq(text, Len(pat) + 1, Len(text)), pat, rep)
         ELSE <<Head(text)>> \o ReplaceAll(Tail(text), pat, rep)

\* ------------------------------------------------------------------------
\* JSON values and JSON.parse
\*
\* A value is [t |-> type, v |-> payload]: "null", "bool" (v = <<"true">> or
\* <<"false">>), "num" (v = the lexeme), "str" (v = the characters), "arr"
\* (v = the elements), "obj" (v = the members [k, v] in source order), and
\* "undefined" for a property that is not there.
\* ------------------------------------------------------------------------

JUndefined == [t |-> "undefined", v |-> << >>]

JNull == [t |-> "null", v |-> << >>]

\* The array literal [] of chat.js line 72 and line 86.
EmptyArr == [t |-> "arr", v |-> << >>]

JFail == [ok |-> FALSE, val |-> JUndefined, next |-> 0]

JOk(val, next) == [ok |-> TRUE, val |-> val, next |-> next]

Digits == {"0", "1", "2", "3", "4", "5", "6", "7", "8", "9"}

RECURSIVE SkipWs(_, _)
SkipWs(s, i) ==
    IF i <= Len(s) /\ s[i] \in WhiteSpace THEN SkipWs(s, i + 1) ELSE i

RECURSIVE SkipDigits(_, _)
SkipDigits(s, i) ==
    IF i <= Len(s) /\ s[i] \in Digits THEN SkipDigits(s, i + 1) ELSE i

\* number: -? (0 | [1-9][0-9]*) (. [0-9]+)? ([eE] [+-]? [0-9]+)?
ParseNumber(s, i) ==
    LET n == Len(s)
        a == IF i <= n /\ s[i] = "-" THEN i + 1 ELSE i
        intEnd == IF a <= n /\ s[a] = "0" THEN a + 1 ELSE SkipDigits(s, a)
        hasFrac == intEnd <= n /\ s[intEnd] = "."
        fracEnd == IF hasFrac THEN SkipDigits(s, intEnd + 1) ELSE intEnd
        hasExp == fracEnd <= n /\ s[fracEnd] \in {"e", "E"}
        expFrom == IF hasExp /\ fracEnd + 1 <= n /\ s[fracEnd + 1] \in {"+", "-"}
                   THEN fracEnd + 2 ELSE fracEnd + 1
        expEnd == IF hasExp THEN SkipDigits(s, expFrom) ELSE fracEnd
    IN  IF /\ intEnd > a
           /\ (hasFrac => fracEnd > intEnd + 1)
           /\ (hasExp => expEnd > expFrom)
        THEN JOk([t |-> "num", v |-> SubSeq(s, i, expEnd - 1)], expEnd)
        ELSE JFail

\* The character a two-character escape stands for (\b, \f and \uXXXX are not
\* in the model's alphabet and end the parse).
Unescape(c) ==
    CASE c = "n" -> "\n"
      [] c = "t" -> "\t"
      [] c = "r" -> "\r"
      [] OTHER -> c

RECURSIVE ScanString(_, _, _)
\* The string whose opening quote precedes position i; acc holds its
\* characters so far.
ScanString(s, i, acc) ==
    IF i > Len(s) THEN JFail
    ELSE IF s[i] = "\"" THEN JOk([t |-> "str", v |-> acc], i + 1)
    ELSE IF s[i] = "\\"
         THEN IF i + 1 <= Len(s) /\ s[i + 1] \in {"\"", "\\", "/", "n", "t", "r"}
              THEN ScanString(s, i + 2, Append(acc, Unescape(s[i + 1])))
              ELSE JFail
    ELSE IF s[i] \in {"\n", "\t", "\r"} THEN JFail
    ELSE ScanString(s, i + 1, Append(acc, s[i]))

ParseLiteral(s, i, word, val) ==
    IF i + Len(word) - 1 <= Len(s) /\ SubSeq(s, i, i + Len(word) - 1) = word
    THEN JOk(val, i + Len(word)) ELSE JFail

RECURSIVE ParseValue(_, _)
RECURSIVE ParseElements(_, _, _)
RECURSIVE ParseMembers(_, _, _)

\* after an element e of an array: a comma and the next element, or the end
ElementsAfter(s, e, j, acc) ==
    IF ~e.ok \/ j > Len(s) THEN JFail
    ELSE IF s[j] = "," THEN ParseElements(s, j + 1, Append(acc, e.val))
    ELSE IF s[j] = "]" THEN JOk([t |-> "arr", v |-> Append(acc, e.val)], j + 1)
    ELSE JFail

ElementsFrom(s, e, acc) ==
    ElementsAfter(s, e, IF e.ok THEN SkipWs(s, e.next) ELSE 0, acc)

\* the elements of an array from position i, after those of acc
ParseElements(s, i, acc) == ElementsFrom(s, ParseValue(s, i), acc)

\* after the members acc of an object: a comma and the next member, or the end
MembersAfter(s, j, acc) ==
    IF j > Len(s) THEN JFail
    ELSE IF s[j] = "," THEN ParseMembers(s, j + 1, acc)
    ELSE IF s[j] = "}" THEN JOk([t |-> "obj", v |-> acc], j + 1)
    ELSE JFail

\* a member's value e has been read
MemberValue(s, key, e, acc) ==
    IF ~e.ok THEN JFail
    ELSE MembersAfter(s, SkipWs(s, e.next),
                      Append(acc, [k |-> key.val.v, v |-> e.val]))

\* a member's key has been read and position c follows it
MemberColon(s, key, c, acc) ==
    IF c > Len(s) \/ s[c] # ":" THEN JFail
    ELSE MemberValue(s, key, ParseValue(s, c + 1), acc)

MemberKey(s, key, acc) ==
    IF ~key.ok THEN JFail ELSE MemberColon(s, key, SkipWs(s, key.next), acc)

MemberAt(s, i, acc) ==
    IF i > Len(s) \/ s[i] # "\"" THEN JFail
    ELSE MemberKey(s, ScanString(s, i + 1, << >>), acc)

\* the members of an object from position i0, after those of acc
ParseMembers(s, i0, acc) == MemberAt(s, SkipWs(s, i0), acc)

\* the object whose "{" precedes position j
ObjectAt(s, j) ==
    IF j <= Len(s) /\ s[j] = "}"
    THEN JOk([t |-> "obj", v |-> << >>], j + 1)
    ELSE ParseMembers(s, j, << >>)

\* the array whose "[" precedes position j
ArrayAt(s, j) ==
    IF j <= Len(s) /\ s[j] = "]" THEN JOk(EmptyArr, j + 1)
    ELSE ParseElements(s, j, << >>)

\* the value that starts at position i
ValueAt(s, i) ==
    IF i > Len(s) THEN JFail
    ELSE CASE s[i] = "{" -> ObjectAt(s, SkipWs(s, i + 1))
           [] s[i] = "[" -> ArrayAt(s, SkipWs(s, i + 1))
           [] s[i] = "\"" -> ScanString(s, i + 1, << >>)
           [] s[i] = "t" ->
                ParseLiteral(s, i, <<"t","r","u","e">>,
                             [t |-> "bool", v |-> <<"true">>])
           [] s[i] = "f" ->
                ParseLiteral(s, i, <<"f","a","l","s","e">>,
                             [t |-> "bool", v |-> <<"false">>])
           [] s[i] = "n" -> ParseLiteral(s, i, <<"n","u","l","l">>, JNull)
           [] s[i] \in Digits \cup {"-"} -> ParseNumber(s, i)
           [] OTHER -> JFail

\* the value at, or after white space from, position i0
ParseValue(s, i0) == ValueAt(s, SkipWs(s, i0))

\* the whole text was one value r and white space
WholeText(text, r) ==
    IF r.ok /\ SkipWs(text, r.next) = Len(text) + 1
    THEN [ok |-> TRUE, val |-> r.val]
    ELSE [ok |-> FALSE, val |-> JUndefined]

\* JSON.parse(text): [ok |-> FALSE] stands for the SyntaxError it throws.
JSONParse(text) == WholeText(text, ParseValue(text, 1))

\* value[key] of a parsed value other than null: the last member of that name
\* of an object, undefined otherwise.
GetProp(val, key) ==
    LET at == IF val.t = "obj"
              THEN { i \in 1..Len(val.v) : val.v[i].k = key } ELSE {}
    IN  IF at = {} THEN JUndefined ELSE val.v[MaxOf(at)].v

\* The number a lexeme denotes is zero.
IsZero(lexeme) ==
    LET mantissa == { i \in 1..Len(lexeme) :
                        \A j \in 1..i : lexeme[j] \notin {"e", "E"} }
    IN  \A i \in mantissa : lexeme[i] \notin (Digits \ {"0"})

\* JavaScript truthiness, as the || of line 86 tests it.
Truthy(val) ==
    CASE val.t \in {"undefined", "null"} -> FALSE
      [] val.t = "bool" -> val.v = <<"true">>
      [] val.t = "num" -> ~IsZero(val.v)
      [] val.t = "str" -> Len(val.v) > 0
      [] OTHER -> TRUE

\* ------------------------------------------------------------------------
\* DecodeReply (chat.js lines 71-94)
\* ------------------------------------------------------------------------

\* Lines 80-84: quotes and the three Python literals rewritten for JSON.parse.
Normalize(jsonStr) ==
    ReplaceAll(
        ReplaceAll(
            ReplaceAll(
                ReplaceAll(jsonStr, <<"'">>, <<"\"">>),
                <<"T","r","u","e">>, <<"t","r","u","e">>),
            <<"F","a","l","s","e">>, <<"f","a","l","s","e">>),
        <<"N","o","n","e">>, <<"n","u","l","l">>)

\* Line 86: metadata.sources || [], of the value JSON.parse returned; raised
\* is the SyntaxError of JSON.parse or the TypeError of reading .sources of
\* null.
SourcesOf(metadata) ==
    IF ~metadata.ok \/ metadata.val.t = "null"
    THEN [raised |-> TRUE, sources |-> EmptyArr]
    ELSE LET found == GetProp(metadata.val, <<"s","o","u","r","c","e","s">>)
         IN  [raised |-> FALSE,
              sources |-> IF Truthy(found) THEN found ELSE EmptyArr]

\* Lines 80-86, the body of the inner try.
ParseMetadata(jsonStr) == SourcesOf(JSONParse(Normalize(jsonStr)))

\* Lines 79-89: the inner try with its catch, which only logs: sources keeps
\* the [] of line 72.
InnerTry(meta) == IF meta.raised THEN EmptyArr ELSE meta.sources

\* DecodeAt with the block guarded by the start sentinel alone.
DecodeAt_StartOnly(aiResText, metaStart, metaEnd) ==
    IF metaStart # -1
    THEN [raised |-> FALSE,
          sources |->
              InnerTry(ParseMetadata(
                  Slice(aiResText, metaStart + StartLen, metaEnd))),
          parsedAnswer |->
              Trim(Substring(aiResText, 0, metaStart)
                   \o SubstringFrom(aiResText, metaEnd + EndLen))]
    ELSE [raised |-> FALSE, sources |-> EmptyArr, parsedAnswer |-> aiResText]

\* DecodeAt with the answer resumed at the end sentinel instead of after it.
DecodeAt_EndKept(aiResText, metaStart, metaEnd) ==
    IF metaStart # -1 /\ metaEnd # -1
    THEN [raised |-> FALSE,
          sources |->
              InnerTry(ParseMetadata(
                  Slice(aiResText, metaStart + StartLen, metaEnd))),
          parsedAnswer |->
              Trim(Substring(aiResText, 0, metaStart)
                   \o SubstringFrom(aiResText, metaEnd))]
    ELSE [raised |-> FALSE, sources |-> EmptyArr, parsedAnswer |-> aiResText]

\* Lines 77-91, given the two indexOf results.
DecodeAt(aiResText, metaStart, metaEnd) ==
    IF metaStart # -1 /\ metaEnd # -1
    THEN [raised |-> FALSE,
          sources |->
              InnerTry(ParseMetadata(
                  Slice(aiResText, metaStart + StartLen, metaEnd))),
          parsedAnswer |->
              Trim(Substring(aiResText, 0, metaStart)
                   \o SubstringFrom(aiResText, metaEnd + EndLen))]
    ELSE [raised |-> FALSE, sources |-> EmptyArr, parsedAnswer |-> aiResText]

\* Lines 75-91, the body of the outer try of the decode.
DecodeBody(aiResText) ==
    DecodeAt(aiResText, IndexOf(aiResText, METADATA_START),
             IndexOf(aiResText, METADATA_END))

\* Lines 74-94: the outer try with its catch, which only logs: had the body
\* thrown, parsedAnswer and sources would keep the values of lines 71-72.
OuterTry(aiResText, body) ==
    IF body.raised
    THEN [raised |-> FALSE, sources |-> EmptyArr, parsedAnswer |-> aiResText]
    ELSE body

\* ServerDecode with neither try: what JSON.parse or the read of .sources
\* throws leaves the block.
ServerDecode_Unguarded(aiResText) ==
    LET metaStart == IndexOf(aiResText, METADATA_START)
        metaEnd == IndexOf(aiResText, METADATA_END)
        meta == ParseMetadata(Slice(aiResText, metaStart + StartLen, metaEnd))
    IN  IF metaStart # -1 /\ metaEnd # -1
        THEN [raised |-> meta.raised,
              sources |-> meta.sources,
              parsedAnswer |->
                  Trim(Substring(aiResText, 0, metaStart)
                       \o SubstringFrom(aiResText, metaEnd + EndLen))]
        ELSE [raised |-> FALSE, sources |-> EmptyArr, parsedAnswer |-> aiResText]

\* Lines 71-94: parsedAnswer and sources after the decode; raised tells whether
\* an exception leaves the block.
ServerDecode(aiResText) == OuterTry(aiResText, DecodeBody(aiResText))

\* ------------------------------------------------------------------------
\* The client's parseRAGResponse (src/unnamed/part_002 lines 8-60)
\* ------------------------------------------------------------------------

LineBreaks == {"\n", "\r"}

\* text.replace(/^[\n\r]+/, "")
StripLeadingBreaks(text) ==
    LET keep == { i \in 1..Len(text) : text[i] \notin LineBreaks }
    IN  IF keep = {} THEN << >> ELSE SubSeq(text, MinOf(keep), Len(text))

\* text.replace(/[\n\r]+$/, "")
StripTrailingBreaks(text) ==
    LET keep == { i \in 1..Len(text) : text[i] \notin LineBreaks }
    IN  IF keep = {} THEN << >> ELSE SubSeq(text, 1, MaxOf(keep))

\* Lines 29-46, given what the body of the inner try did: when it ran through,
\* the sources are set and the block is cut out of the answer text (lines
\* 37-42); when JSON.parse or the read of .sources threw, the catch only logs
\* and the answer text stays the whole raw response.
ClientInnerTry(rawResponse, metadataStart, metadataEnd, meta) ==
    IF meta.raised
    THEN [sources |-> EmptyArr, answerText |-> rawResponse]
    ELSE [sources |-> meta.sources,
          answerText |->
              Slice(rawResponse, 0, metadataStart)
                  \o Slice(rawResponse, metadataEnd + EndLen, Len(rawResponse))]

\* Lines 20-47, given the two indexOf results. The replaces and the
\* metadata.sources || [] of lines 30-37 are those of the server.
ParseAt(rawResponse, metadataStart, metadataEnd) ==
    IF metadataStart # -1 /\ metadataEnd # -1
    THEN ClientInnerTry(rawResponse, metadataStart, metadataEnd,
             ParseMetadata(
                 Slice(rawResponse, metadataStart + StartLen, metadataEnd)))
    ELSE [sources |-> EmptyArr, answerText |-> rawResponse]

\* Lines 49-55: the answer text cleaned up and the result returned.
CleanUp(block) ==
    [answer |-> StripTrailingBreaks(StripLeadingBreaks(Trim(block.answerText))),
     sources |-> block.sources]

\* parseRAGResponse(rawResponse): its answer and sources. Nothing inside the
\* outer try of lines 16-59 throws past the inner one.
ParseRAGResponse(rawResponse) ==
    CleanUp(ParseAt(rawResponse, IndexOf(rawResponse, METADATA_START),
                    IndexOf(rawResponse, METADATA_END)))

\* ------------------------------------------------------------------------
\* State
\* ------------------------------------------------------------------------

\* The request slots that may be in flight at once.
Slots == {1, 2}

\* The number of requests one run starts.
MaxRequests == 2

VARIABLES
    messages,   \* the messages table, in insertion (message_id) order
    req,        \* per slot: the request in flight, its locals and its response
    started,    \* the number of requests started so far
    aiUrl       \* whether process.env.AI_SERVICE_URL is set

vars == <<messages, req, started, aiUrl>>

\* A slot with no request in flight. status 0: no response sent yet;
\* authHeader and cookieToken are req.headers.authorization and
\* req.cookies.token, user is req.user (not assigned yet); lastMessages holds the message_id of the rows
\* of the context query, after the reverse() of line 53.
IdleReq ==
    [kind |-> "none", pc |-> "idle",
     authHeader |-> [scheme |-> "none",
                     token |-> [present |-> FALSE, valid |-> FALSE, user_id |-> 0]],
     cookieToken |-> [present |-> FALSE, valid |-> FALSE, user_id |-> 0],
     user |-> [set |-> "undefined", user_id |-> 0],
     userId |-> 0, question |-> << >>,
     convId |-> "", msgIndex |-> 0, userRow |-> 0,
     lastMessages |-> << >>, messageContext |-> << >>,
     calls |-> 0, gotText |-> FALSE, aiResText |-> << >>,
     parsedAnswer |-> << >>, sources |-> EmptyArr, aiIndex |-> 0, aiRow |-> 0,
     status |-> 0, answer |-> << >>, respSources |-> EmptyArr,
     respMessages |-> << >>,
     botMsg |-> "none", parsed |-> [answer |-> << >>, sources |-> EmptyArr]]

Init ==
    /\ messages = << >>
    /\ req = [r \in Slots |-> IdleReq]
    /\ started = 0
    /\ aiUrl \in BOOLEAN

\* ------------------------------------------------------------------------
\* onRequest hook (chat.js lines 199-215)
\* ------------------------------------------------------------------------

\* A signed token as jwt.verify sees it: valid tells whether signature and
\* expiry check out, user_id is the claim of its payload (0: none).
TokenT1 == [present |-> TRUE, valid |-> TRUE, user_id |-> 1]

TokenT2 == [present |-> TRUE, valid |-> TRUE, user_id |-> 2]

TokenNoId == [present |-> TRUE, valid |-> TRUE, user_id |-> 0]

TokenBad == [present |-> TRUE, valid |-> FALSE, user_id |-> 1]

\* An absent cookie, or the empty string left of "Bearer " alone.
NoToken == [present |-> FALSE, valid |-> FALSE, user_id |-> 0]

\* An Authorization header: absent, "Bearer <token>", or another scheme.
NoHeader == [scheme |-> "none", token |-> NoToken]

Bearer(t) == [scheme |-> "Bearer", token |-> t]

Basic(t) == [scheme |-> "Basic", token |-> t]

\* req.user: never assigned, null, or the verified payload.
UserUndefined == [set |-> "undefined", user_id |-> 0]

UserNull == [set |-> "null", user_id |-> 0]

\* OnRequest falling back to the cookie when the header's token does not verify.
OnRequest_Fallback(authHeader, cookieToken) ==
    LET token == IF authHeader.scheme = "Bearer" /\ authHeader.token.valid
                 THEN authHeader.token ELSE cookieToken
    IN  IF ~token.present THEN UserUndefined
        ELSE IF token.valid THEN [set |-> "payload", user_id |-> token.user_id]
        ELSE UserNull

\* OnRequest with the cookie never read.
OnRequest_HeaderOnly(authHeader, cookieToken) ==
    LET token == IF authHeader.scheme = "Bearer"
                 THEN authHeader.token ELSE NoToken
    IN  IF ~token.present THEN UserUndefined
        ELSE IF token.valid THEN [set |-> "payload", user_id |-> token.user_id]
        ELSE UserNull

\* OnRequest with the payload decoded and its signature and expiry not checked.
OnRequest_Unverified(authHeader, cookieToken) ==
    LET token == IF authHeader.scheme = "Bearer"
                 THEN authHeader.token ELSE cookieToken
    IN  IF ~token.present THEN UserUndefined
        ELSE [set |-> "payload", user_id |-> token.user_id]

\* Lines 200-214.
OnRequest(authHeader, cookieToken) ==
    LET token == IF authHeader.scheme = "Bearer"
                 THEN authHeader.token ELSE cookieToken
    IN  IF ~token.present THEN UserUndefined
        ELSE IF token.valid THEN [set |-> "payload", user_id |-> token.user_id]
        ELSE UserNull

\* Authenticated with the user_id of the payload not looked at.
Authenticated_UserOnly(user) == user.set = "payload"

\* Lines 5 and 120: req.user && req.user.user_id
Authenticated(user) == user.set = "payload" /\ user.user_id # 0

\* ------------------------------------------------------------------------
\* The messages table
\* ------------------------------------------------------------------------

\* CountOfUser with the WHERE clause left out: every row counts.
CountOfUser_All(ledger, userId) ==
    Len(ledger)

\* SELECT COUNT(*) FROM messages WHERE user_id = ?  (lines 18-21, 97-100)
CountOfUser(ledger, userId) ==
    Cardinality({ i \in 1..Len(ledger) : ledger[i].user_id = userId })

\* ScopeRows with the user_id condition left out.
ScopeRows_AnyUser(ledger, userId, convId) ==
    { i \in 1..Len(ledger) : ledger[i].conversation_id = convId }

\* The rows (by position) WHERE user_id = ? AND conversation_id = ?
ScopeRows(ledger, userId, convId) ==
    { i \in 1..Len(ledger) :
        ledger[i].user_id = userId /\ ledger[i].conversation_id = convId }

RECURSIVE DescOrders(_, _)
\* ORDER BY message_index DESC of the rows S: every order the engine may
\* return (rows of equal message_index come in an unspecified order).
DescOrders(ledger, S) ==
    IF S = {} THEN { << >> }
    ELSE LET top == { i \in S : \A j \in S :
                        ledger[j].message_index <= ledger[i].message_index }
         IN  UNION { { <<i>> \o o : o \in DescOrders(ledger, S \ {i}) } : i \in top }

Reverse(seq) == [i \in 1..Len(seq) |-> seq[Len(seq) + 1 - i]]

\* ORDER BY message_index ASC
AscOrders(ledger, S) == { Reverse(o) : o \in DescOrders(ledger, S) }

\* Limit with no LIMIT clause.
Limit_Unbounded(seq, n) == seq

\* LIMIT n
Limit(seq, n) == SubSeq(seq, 1, IF Len(seq) < n THEN Len(seq) ELSE n)

\* The LIMIT of the context query (line 49).
ContextLimit == 8

Row(convId, userId, content, speaker, msgIndex) ==
    [conversation_id |-> convId, user_id |-> userId, content |-> content,
     speaker |-> speaker, message_index |-> msgIndex]

\* Lines 53-56: the rows mapped to {role, content}.
ToContext(ledger, order) ==
    [i \in 1..Len(order) |->
        [role |-> IF ledger[order[i]].speaker = "User" THEN "user" ELSE "assistant",
         content |-> ledger[order[i]].content]]

\* Lines 142-148: a row as GET /chat returns it.
ToMessages(ledger, order) ==
    [i \in 1..Len(order) |->
        [messageId |-> order[i],
         role |-> IF ledger[order[i]].speaker = "User" THEN "user" ELSE "assistant",
         content |-> ledger[order[i]].content,
         index |-> ledger[order[i]].message_index]]

\* ------------------------------------------------------------------------
\* Requests. Each action is one run of a handler between two awaits.
\* ------------------------------------------------------------------------

\* A request body's question: absent, or a text.
NoQuestion == [present |-> FALSE, text |-> << >>]

Question(text) == [present |-> TRUE, text |-> text]

\* conversationId || "default-session" (lines 16 and 35); "" stands for a
\* conversationId that is absent or empty.
ResolveConv(conversationId) ==
    IF conversationId = "" THEN "default-session" ELSE conversationId

\* reply.code(status).send(...) of a response that carries no answer
Fail(r, status) == [req EXCEPT ![r].pc = "done", ![r].status = status]

\* Lines 108-113: reply.code(200).send({aiMessage, sources, answer, ...})
Respond(r, rq) ==
    [req EXCEPT ![r] = [rq EXCEPT !.pc = "done", !.status = 200,
                                  !.answer = rq.parsedAnswer,
                                  !.respSources = rq.sources]]

\* QuestionRequired with the question not trimmed.
QuestionRequired_NoTrim(question) ==
    ~question.present \/ question.text = << >>

\* Line 12: !question || !question.trim()
QuestionRequired(question) ==
    ~question.present \/ Trim(question.text) = << >>

\* The request after the onRequest hook and the handler up to its first await
\* (POST: lines 5-18; GET: lines 120-127): rejected, or its first query issued.
Arrived(fresh, kind, question, conversationId) ==
    IF ~Authenticated(fresh.user)
    THEN [fresh EXCEPT !.pc = "done", !.status = 401]
    ELSE IF kind = "GET"
    THEN [fresh EXCEPT !.pc = "getRows", !.userId = fresh.user.user_id,
                       !.convId = "default-session"]
    ELSE IF QuestionRequired(question)
    THEN [fresh EXCEPT !.pc = "done", !.status = 400,
                       !.userId = fresh.user.user_id]
    ELSE [fresh EXCEPT !.pc = "countUser", !.userId = fresh.user.user_id,
                       !.question = question.text,
                       !.convId = ResolveConv(conversationId)]

\* The request as the server receives it (lines 200-201), req.user set by the
\* onRequest hook.
Fresh(kind, authHeader, cookieToken) ==
    [IdleReq EXCEPT !.kind = kind, !.authHeader = authHeader,
                    !.cookieToken = cookieToken,
                    !.user = OnRequest(authHeader, cookieToken)]

\* A request arrives in an idle slot.
Begin(r, kind, authHeader, cookieToken, question, conversationId) ==
    /\ req[r].pc = "idle"
    /\ started < MaxRequests
    /\ started' = started + 1
    /\ req' = [req EXCEPT ![r] =
          Arrived(Fresh(kind, authHeader, cookieToken), kind, question,
                  conversationId)]
    /\ UNCHANGED <<messages, aiUrl>>

\* CountUser with the rejection logged and the request going on.
CountUser_Continue(r) ==
    /\ req[r].pc = "countUser"
    /\ \/ req' = [req EXCEPT ![r].pc = "insertUser",
                             ![r].msgIndex = CountOfUser(messages, req[r].userId) + 1]
       \/ req' = [req EXCEPT ![r].pc = "readContext"]
    /\ UNCHANGED <<messages, started, aiUrl>>

\* Lines 18-22: the COUNT of the user turn resolves, or rejects (lines 28-30).
CountUser(r) ==
    /\ req[r].pc = "countUser"
    /\ \/ req' = [req EXCEPT ![r].pc = "insertUser",
                             ![r].msgIndex = CountOfUser(messages, req[r].userId) + 1]
       \/ req' = Fail(r, 500)
    /\ UNCHANGED <<messages, started, aiUrl>>

\* InsertUser with the rejection logged and the request going on.
InsertUser_Continue(r) ==
    /\ req[r].pc = "insertUser"
    /\ \/ /\ messages' = Append(messages,
                Row(req[r].convId, req[r].userId, req[r].question, "User",
                    req[r].msgIndex))
          /\ req' = [req EXCEPT ![r].userRow = Len(messages) + 1,
                                ![r].pc = IF aiUrl THEN "readContext" ELSE "done",
                                ![r].status = IF aiUrl THEN 0 ELSE 500]
       \/ /\ req' = [req EXCEPT ![r].pc = "readContext"]
          /\ UNCHANGED messages
    /\ UNCHANGED <<started, aiUrl>>

\* Lines 24-37: the INSERT of the user turn resolves, then the AI_SERVICE_URL
\* check and the context query is issued; or the INSERT rejects (lines 28-30).
InsertUser(r) ==
    /\ req[r].pc = "insertUser"
    /\ \/ /\ messages' = Append(messages,
                Row(req[r].convId, req[r].userId, req[r].question, "User",
                    req[r].msgIndex))
          /\ req' = [req EXCEPT ![r].userRow = Len(messages) + 1,
                                ![r].pc = IF aiUrl THEN "readContext" ELSE "done",
                                ![r].status = IF aiUrl THEN 0 ELSE 500]
       \/ /\ req' = Fail(r, 500)
          /\ UNCHANGED messages
    /\ UNCHANGED <<started, aiUrl>>

\* Lines 37-59: the context query resolves, the window is built and the
\* outbound call is made; or the query rejects (lines 114-116).
ReadContext(r) ==
    /\ req[r].pc = "readContext"
    /\ \/ \E order \in DescOrders(messages,
                         ScopeRows(messages, req[r].userId, req[r].convId)) :
            req' = [req EXCEPT
                ![r].lastMessages = Reverse(Limit(order, ContextLimit)),
                ![r].messageContext =
                    ToContext(messages, Reverse(Limit(order, ContextLimit))),
                ![r].calls = req[r].calls + 1,
                ![r].pc = "infer"]
       \/ req' = Fail(r, 502)
    /\ UNCHANGED <<messages, started, aiUrl>>

\* Lines 71-97, given the decode of the text: the locals are set and the COUNT
\* of the AI turn is issued; an exception leaving the decode would reach the
\* catch of lines 114-116.
Received(rq, text, decoded) ==
    IF decoded.raised
    THEN [rq EXCEPT !.gotText = TRUE, !.aiResText = text,
                    !.pc = "done", !.status = 502]
    ELSE [rq EXCEPT !.gotText = TRUE, !.aiResText = text,
                    !.parsedAnswer = decoded.parsedAnswer,
                    !.sources = decoded.sources,
                    !.pc = "countAI"]

\* Lines 58-97: the collaborator's text body arrives, is decoded, and the
\* COUNT of the AI turn is issued.
InferenceReturns(r, text) ==
    /\ req[r].pc = "infer"
    /\ req' = [req EXCEPT ![r] = Received(req[r], text, ServerDecode(text))]
    /\ UNCHANGED <<messages, started, aiUrl>>

\* InferenceFails with one more attempt before the request gives up.
InferenceFails_Retry(r) ==
    /\ req[r].pc = "infer"
    /\ req' = IF req[r].calls < 2
              THEN [req EXCEPT ![r].calls = req[r].calls + 1]
              ELSE Fail(r, 502)
    /\ UNCHANGED <<messages, started, aiUrl>>

\* InferenceFails with the catch undoing the user turn.
InferenceFails_Rollback(r) ==
    /\ req[r].pc = "infer"
    /\ req' = Fail(r, 502)
    /\ messages' = [messages EXCEPT ![req[r].userRow].content = << >>]
    /\ UNCHANGED <<started, aiUrl>>

\* Lines 58-69 and 114-116: network error, timeout or non-2xx.
InferenceFails(r) ==
    /\ req[r].pc = "infer"
    /\ req' = Fail(r, 502)
    /\ UNCHANGED <<messages, started, aiUrl>>

\* CountAI with a rejection after which no response is sent.
CountAI_Hang(r) ==
    /\ req[r].pc = "countAI"
    /\ \/ req' = [req EXCEPT ![r].pc = "insertAI",
                             ![r].aiIndex = CountOfUser(messages, req[r].userId) + 1]
       \/ req' = [req EXCEPT ![r].pc = "hung"]
    /\ UNCHANGED <<messages, started, aiUrl>>

\* CountAI with the rejection reported to the client.
CountAI_Surfaced(r) ==
    /\ req[r].pc = "countAI"
    /\ \/ req' = [req EXCEPT ![r].pc = "insertAI",
                             ![r].aiIndex = CountOfUser(messages, req[r].userId) + 1]
       \/ req' = Fail(r, 500)
    /\ UNCHANGED <<messages, started, aiUrl>>

\* Lines 97-101: the COUNT of the AI turn resolves; or it rejects, the empty
\* catch of line 106 swallows it and the response is sent (lines 108-113).
CountAI(r) ==
    /\ req[r].pc = "countAI"
    /\ \/ req' = [req EXCEPT ![r].pc = "insertAI",
                             ![r].aiIndex = CountOfUser(messages, req[r].userId) + 1]
       \/ req' = Respond(r, req[r])
    /\ UNCHANGED <<messages, started, aiUrl>>

\* AiContent with the undecoded body stored.
AiContent_Raw(rq) == rq.aiResText

\* The content column of the AI turn's INSERT (line 104).
AiContent(rq) == rq.parsedAnswer

\* InsertAI with the AI turn written over the request's user row.
InsertAI_Overwrite(r) ==
    /\ req[r].pc = "insertAI"
    /\ \/ /\ messages' = [messages EXCEPT ![req[r].userRow] =
                Row(req[r].convId, req[r].userId, AiContent(req[r]), "AI",
                    req[r].aiIndex)]
          /\ req' = Respond(r, [req[r] EXCEPT !.aiRow = req[r].userRow])
       \/ /\ req' = Respond(r, req[r])
          /\ UNCHANGED messages
    /\ UNCHANGED <<started, aiUrl>>

\* Lines 102-113: the INSERT of the AI turn resolves or rejects (swallowed),
\* and the response is sent.
InsertAI(r) ==
    /\ req[r].pc = "insertAI"
    /\ \/ /\ messages' = Append(messages,
                Row(req[r].convId, req[r].userId, AiContent(req[r]), "AI",
                    req[r].aiIndex))
          /\ req' = Respond(r, [req[r] EXCEPT !.aiRow = Len(messages) + 1])
       \/ /\ req' = Respond(r, req[r])
          /\ UNCHANGED messages
    /\ UNCHANGED <<started, aiUrl>>

\* GET /chat, lines 127-162: the history query resolves or rejects.
GetRows(r) ==
    /\ req[r].pc = "getRows"
    /\ \/ \E order \in AscOrders(messages,
                         ScopeRows(messages, req[r].userId, req[r].convId)) :
            req' = [req EXCEPT ![r].respMessages = ToMessages(messages, order),
                               ![r].pc = "done", ![r].status = 200]
       \/ req' = Fail(r, 500)
    /\ UNCHANGED <<messages, started, aiUrl>>

\* The response has been delivered; the slot takes the next request.
Close(r) ==
    /\ req[r].pc = "done"
    /\ req' = [req EXCEPT ![r] = IdleReq]
    /\ UNCHANGED <<messages, started, aiUrl>>

\* The chat page's sendMessage after the fetch of POST /chat resolves
\* (page.tsx lines 121-146): a response that is not ok puts the error text in
\* the bot message; otherwise data.answer goes through parseRAGResponse and
\* the bot message shows parsed.answer.
ShowAnswer(r) ==
    /\ req[r].kind = "POST" /\ req[r].pc = "done" /\ req[r].botMsg = "none"
    /\ req' = IF req[r].status = 200
              THEN [req EXCEPT ![r].botMsg = "answer",
                               ![r].parsed = ParseRAGResponse(req[r].answer)]
              ELSE [req EXCEPT ![r].botMsg = "error"]
    /\ UNCHANGED <<messages, started, aiUrl>>

\* ------------------------------------------------------------------------
\* Inputs
\* ------------------------------------------------------------------------

Headers ==
    {NoHeader, Bearer(TokenT1), Bearer(TokenT2), Bearer(TokenBad),
     Bearer(NoToken), Basic(TokenT1)}

Cookies == {NoToken, TokenT1, TokenT2, TokenBad, TokenNoId}

Questions == {NoQuestion, Question(<< >>), Question(<<" ">>), Question(<<"h","i">>)}

ConversationIds == {"", "c1"}

PayloadOk == <<"{","'","s","o","u","r","c","e","s","'",":","[","'","a","'","]","}">>

\* A body with one metadata block, and a body without.
ReplyBlock == METADATA_START \o PayloadOk \o METADATA_END \o <<" ","n","o">>

ReplyPlain == <<"o","k">>

\* The pieces the bodies of the decode runs are made of.
Pieces == { <<" ">>, <<"h","i">>, METADATA_START, METADATA_END, PayloadOk }

\* The most pieces in one body.
MaxPieces == 4

RECURSIVE Texts(_)
\* The concatenations of at most n pieces.
Texts(n) ==
    IF n = 0 THEN { << >> }
    ELSE LET shorter == Texts(n - 1)
         IN  shorter \cup { p \o t : p \in Pieces, t \in shorter }

\* The example of the specification's section 8.
ExampleText == <<"h","e","l","l","o"," ","M","E","T","A","D","A","T","A","_","S","T","A","R","T",":","{","'","s","o","u","r","c","e","s","'",":"," ","[","'","a",".","p","d","f"," ","(","p",".","1",")","'","]",","," ","'","c","o","n","t","e","x","t","'",":"," ","'","x","'","}",":","M","E","T","A","D","A","T","A","_","E","N","D"," ","w","o","r","l","d">>

Block(payload) == METADATA_START \o payload \o METADATA_END

\* Bodies whose payload is JSON null, a number, an object without sources, an
\* object whose sources is a string; the two sentinels sharing their colon; a
\* start sentinel that only the removal of the block puts together.
SpecialTexts ==
    { ExampleText,
      <<"h","i">> \o Block(<<"N","o","n","e">>) \o <<" ">>,
      Block(<<"5">>) \o <<"h","i">>,
      Block(<<"{","'","o","k","'",":","T","r","u","e","}">>) \o <<"h","i">>,
      Block(<<"{","'","s","o","u","r","c","e","s","'",":","'","a","'","}">>),
      METADATA_START \o <<"M","E","T","A","D","A","T","A","_","E","N","D">> \o <<"h","i">>,
      <<"M","E","T","A","D","A","T","A","_">> \o Block(PayloadOk)
          \o <<"S","T","A","R","T",":">> }

\* The bodies the collaborator returns in the decode runs.
RawTexts == Texts(MaxPieces) \cup SpecialTexts

\* ------------------------------------------------------------------------
\* Specifications
\* ------------------------------------------------------------------------

\* The steps of a POST /chat request in slot r, the collaborator answering
\* from replies.
PostStep(r, replies) ==
    \/ CountUser(r)
    \/ InsertUser(r)
    \/ ReadContext(r)
    \/ \E text \in replies : InferenceReturns(r, text)
    \/ InferenceFails(r)
    \/ CountAI(r)
    \/ InsertAI(r)

\* A request arrives in slot r.
Arrive(r, headers, cookies, questions) ==
    \E kind \in {"POST", "GET"}, h \in headers, c \in cookies,
       q \in questions, conv \in ConversationIds :
        Begin(r, kind, h, c, q, conv)

\* Requests of two users and of callers without identity, overlapping as the
\* slots allow.
Next ==
    \E r \in Slots :
        \/ Arrive(r, {NoHeader, Bearer(TokenT1), Bearer(TokenT2)}, {NoToken},
                  {Question(<< >>), Question(<<"h","i">>)})
        \/ PostStep(r, {ReplyBlock})
        \/ GetRows(r)
        \/ Close(r)

Spec == Init /\ [][Next]_vars

\* One request at a time: a request starts after the previous one has ended.
SeqNext ==
    \/ Arrive(1, Headers, Cookies, Questions)
    \/ PostStep(1, {ReplyPlain, ReplyBlock})
    \/ GetRows(1)
    \/ Close(1)

SeqSpec == Init /\ [][SeqNext]_vars

\* One POST /chat request, the collaborator answering with any of RawTexts.
CodecNext ==
    \/ \E conv \in ConversationIds :
         Begin(1, "POST", Bearer(TokenT1), NoToken, Question(<<"h","i">>), conv)
    \/ PostStep(1, RawTexts)

CodecSpec == Init /\ [][CodecNext]_vars

\* A POST /chat request in slot 1 and, once it has ended, a GET /chat request
\* in slot 2; the ended request stays in its slot.
LaterNext ==
    \/ \E h \in Headers, c \in Cookies, q \in Questions, conv \in ConversationIds :
         Begin(1, "POST", h, c, q, conv)
    \/ PostStep(1, {ReplyPlain, ReplyBlock})
    \/ /\ req[1].pc = "done"
       /\ \E h \in Headers, c \in Cookies : Begin(2, "GET", h, c, NoQuestion, "")
    \/ GetRows(2)

LaterSpec == Init /\ [][LaterNext]_vars

\* Overlapping requests of one user; every storage call and the inference
\* call of a request in flight eventually returns or fails (the inference
\* call within its request timeout, line 67).
FairNext ==
    \E r \in Slots :
        \/ \E kind \in {"POST", "GET"}, h \in {NoHeader, Bearer(TokenT1)},
              q \in {NoQuestion, Question(<<"h","i">>)} :
             Begin(r, kind, h, NoToken, q, "")
        \/ PostStep(r, {ReplyBlock})
        \/ GetRows(r)
        \/ Close(r)

FairSpec ==
    /\ Init /\ [][FairNext]_vars
    /\ \A r \in Slots :
         /\ WF_vars(CountUser(r)) /\ WF_vars(InsertUser(r))
         /\ WF_vars(ReadContext(r))
         /\ WF_vars(InferenceFails(r) \/ InferenceReturns(r, ReplyBlock))
         /\ WF_vars(CountAI(r)) /\ WF_vars(InsertAI(r))

\* The most exchanges a ledger starts with.
MaxHistory == 5

RECURSIVE History(_, _)
\* The ledger n completed POST /chat requests of user 1 in "default-session"
\* leave behind when they follow the ledger before: each appends its User row
\* and its AI row, indexed by the user's row count plus one.
History(before, n) ==
    IF n = 0 THEN before
    ELSE LET led == History(before, n - 1)
             cnt == CountOfUser(led, 1)
         IN  led \o << Row("default-session", 1, <<"h","i">>, "User", cnt + 1),
                       Row("default-session", 1, <<"n","o">>, "AI", cnt + 2) >>

\* The rows one exchange of user 2 in "default-session" and one exchange of
\* user 1 in "c1" leave behind.
OtherScopes ==
    << Row("default-session", 2, <<"h","i">>, "User", 1),
       Row("default-session", 2, <<"n","o">>, "AI", 2),
       Row("c1", 1, <<"h","i">>, "User", 1),
       Row("c1", 1, <<"n","o">>, "AI", 2) >>

\* The server with a ledger that earlier requests have filled.
ContextInit ==
    /\ messages \in { History(before, n) :
                        before \in {<< >>, OtherScopes}, n \in 0..MaxHistory }
    /\ req = [r \in Slots |-> IdleReq]
    /\ started = 0
    /\ aiUrl = TRUE

\* One POST /chat request of user 1 or user 2 on that ledger.
ContextNext ==
    \/ \E h \in {Bearer(TokenT1), Bearer(TokenT2)}, conv \in ConversationIds :
         Begin(1, "POST", h, NoToken, Question(<<"h","i">>), conv)
    \/ PostStep(1, {ReplyPlain, ReplyBlock})

ContextSpec == ContextInit /\ [][ContextNext]_vars

\* The source names of the payloads of the source-list runs: a plain name, a
\* name with a blank, and names that hold the spellings None and True.
SourceNames ==
    { <<"a">>, <<"b"," ","c">>, <<"N","o","n","e">>, <<"T","r","u","e"," ","x">> }

\* The most sources in one payload.
MaxSources == 2

\* The lists of at most n source names.
SourceLists(n) ==
    UNION { [1..k -> SourceNames] : k \in 0..n }

RECURSIVE Quoted(_, _)
\* The names from position i on, each in single quotes, joined by ", ".
Quoted(srcs, i) ==
    IF i > Len(srcs) THEN << >>
    ELSE <<"'">> \o srcs[i] \o <<"'">>
         \o (IF i < Len(srcs) THEN <<",", " ">> ELSE << >>)
         \o Quoted(srcs, i + 1)

\* The payload the collaborator writes for a list of sources, in its native
\* literal spelling: {'sources': ['a', 'b'], 'ok': True}
PayloadOf(srcs) ==
    <<"{","'","s","o","u","r","c","e","s","'",":"," ","[">> \o Quoted(srcs, 1)
        \o <<"]",","," ","'","o","k","'",":"," ","T","r","u","e","}">>

\* The payload of a reply without a sources field.
PayloadNoSources == <<"{","'","o","k","'",":"," ","N","o","n","e","}">>

\* The bodies of the source-list runs.
SourceTexts ==
    { <<"h","i"," ">> \o Block(PayloadOf(srcs)) : srcs \in SourceLists(MaxSources) }
        \cup { <<"h","i"," ">> \o Block(PayloadNoSources) }

\* One POST /chat request, the collaborator answering with any of SourceTexts.
SourcesNext ==
    \/ \E conv \in ConversationIds :
         Begin(1, "POST", Bearer(TokenT1), NoToken, Question(<<"h","i">>), conv)
    \/ PostStep(1, SourceTexts)

SourcesSpec == Init /\ [][SourcesNext]_vars

\* The bodies of the page runs: those of the decode runs, and a body with two
\* metadata blocks.
PageTexts ==
    RawTexts \cup { Block(PayloadOk) \o Block(PayloadOk) \o <<"h","i">> }

\* One POST /chat request sent by the chat page, the collaborator answering
\* with any of PageTexts, and the page showing the response.
PageNext ==
    \/ \E conv \in ConversationIds :
         Begin(1, "POST", Bearer(TokenT1), NoToken, Question(<<"h","i">>), conv)
    \/ PostStep(1, PageTexts)
    \/ ShowAnswer(1)

PageSpec == Init /\ [][PageNext]_vars

\* ------------------------------------------------------------------------
\* Properties
\* ------------------------------------------------------------------------

Contains(text, pat) == IndexOf(text, pat) # -1

\* The 0-based indices at which pat occurs in text.
Occurrences(text, pat) ==
    { i \in 0..(Len(text) - Len(pat)) : SubSeq(text, i + 1, i + Len(pat)) = pat }

HasSentinel(text) == Contains(text, METADATA_START) \/ Contains(text, METADATA_END)

\* The index of the first start sentinel (-1: none).
FirstStart(text) == IndexOf(text, METADATA_START)

\* The indices of the end sentinels that begin after the first start sentinel
\* has ended.
EndsAfterStart(text) ==
    { i \in Occurrences(text, METADATA_END) : i >= FirstStart(text) + StartLen }

\* The text has a start sentinel and an end sentinel after it.
HasBlock(text) == FirstStart(text) # -1 /\ EndsAfterStart(text) # {}

\* The index of the first end sentinel after the first start sentinel.
BlockEnd(text) == MinOf(EndsAfterStart(text))

\* The payload of the block, and the text with the block removed.
BlockPayload(text) == SubSeq(text, FirstStart(text) + StartLen + 1, BlockEnd(text))

WithoutBlock(text) ==
    SubSeq(text, 1, FirstStart(text))
        \o SubSeq(text, BlockEnd(text) + EndLen + 1, Len(text))

\* The rows of the scope of row i written no later than row i.
EarlierInScope(i) ==
    { j \in 1..i : /\ messages[j].user_id = messages[i].user_id
                   /\ messages[j].conversation_id = messages[i].conversation_id }

\* C1: with one request at a time, the message_index values of every
\* (user_id, conversation_id) scope are, in write order, 1, 2, ..., N.
C1_ScopeIndicesAreDense ==
    \A i \in 1..Len(messages) :
        messages[i].message_index = Cardinality(EarlierInScope(i))

\* C2: whatever the interleaving of the requests, no two rows of one
\* (user_id, conversation_id) scope carry the same message_index.
C2_NoDuplicateIndex ==
    \A i, j \in 1..Len(messages) :
        (i # j /\ j \in EarlierInScope(i))
            => messages[i].message_index # messages[j].message_index

C4_AnswerHasNoSentinel ==
    \A r \in Slots :
        (req[r].kind = "POST" /\ req[r].status = 200) => ~HasSentinel(req[r].answer)

\* C4, amended: the answer of a 200 response is free of sentinels when the raw
\* text has none; when the first end sentinel comes after the first start
\* sentinel, it is free of them exactly when the text before that start
\* sentinel joined to the text after that end sentinel is; in every other
\* layout (start only, end only, end before start) it contains a sentinel.
C4_AnswerSentinels ==
    \A r \in Slots :
        (req[r].kind = "POST" /\ req[r].status = 200) =>
            LET raw == req[r].aiResText
                a == IndexOf(raw, METADATA_START)
                b == IndexOf(raw, METADATA_END)
            IN  HasSentinel(req[r].answer) <=>
                    IF a = -1 /\ b = -1 THEN FALSE
                    ELSE IF a # -1 /\ b # -1 /\ a < b
                    THEN HasSentinel(SubSeq(raw, 1, a)
                                     \o SubSeq(raw, b + EndLen + 1, Len(raw)))
                    ELSE TRUE

\* A 200 response whose raw text held a block and whose answer holds no
\* sentinel.
C4_Witness ==
    \E r \in Slots :
        /\ req[r].kind = "POST" /\ req[r].status = 200
        /\ HasBlock(req[r].aiResText)
        /\ ~HasSentinel(req[r].answer)

\* The payload of the block as JSON.parse reads it after the rewriting.
BlockJson(text) == JSONParse(Normalize(BlockPayload(text)))

\* C5: when the raw text has a start sentinel and an end sentinel after it, and
\* the payload between them does not parse after the rewriting, the decode
\* gives no sources and the answer is the raw text without the block, trimmed.
C5_UnparsableBlockRemoved ==
    \A r \in Slots :
        (/\ req[r].gotText
         /\ HasBlock(req[r].aiResText)
         /\ ~BlockJson(req[r].aiResText).ok)
        => /\ req[r].sources = EmptyArr
           /\ req[r].parsedAnswer = Trim(WithoutBlock(req[r].aiResText))

\* C6: when the raw text is P, start sentinel, payload, end sentinel, S and the
\* payload parses after the rewriting, the answer is trim(P ++ S) and the
\* sources are the payload's sources array.
C6_BlockRemoved ==
    \A r \in Slots :
        (/\ req[r].gotText
         /\ HasBlock(req[r].aiResText)
         /\ BlockJson(req[r].aiResText).ok)
        => LET found == GetProp(BlockJson(req[r].aiResText).val,
                                <<"s","o","u","r","c","e","s">>)
           IN  /\ req[r].parsedAnswer = Trim(WithoutBlock(req[r].aiResText))
               /\ found.t = "arr" => req[r].sources = found

\* C7: when the raw text has neither sentinel, the decode gives no sources and
\* the answer is the raw text trimmed.
C7_NoSentinelTrimmed ==
    \A r \in Slots :
        (req[r].gotText /\ ~HasSentinel(req[r].aiResText))
        => /\ req[r].sources = EmptyArr
           /\ req[r].parsedAnswer = Trim(req[r].aiResText)

\* C8: when the raw text has a start sentinel and no end sentinel, the decode
\* gives the raw text, every character kept, and no sources; so does the 200
\* response.
C8_StartOnlyUnchanged ==
    \A r \in Slots :
        (/\ req[r].gotText
         /\ Contains(req[r].aiResText, METADATA_START)
         /\ ~Contains(req[r].aiResText, METADATA_END))
        => /\ req[r].parsedAnswer = req[r].aiResText
           /\ req[r].sources = EmptyArr
           /\ req[r].status = 200 =>
                (req[r].answer = req[r].aiResText /\ req[r].respSources = EmptyArr)

\* A 200 response to a raw text with a start sentinel, no end sentinel and
\* white space at an end, all of it in the answer.
C8_Witness ==
    \E r \in Slots :
        /\ req[r].status = 200
        /\ Contains(req[r].aiResText, METADATA_START)
        /\ ~Contains(req[r].aiResText, METADATA_END)
        /\ Trim(req[r].aiResText) # req[r].aiResText
        /\ req[r].answer = req[r].aiResText

\* C9: when every end sentinel of the raw text precedes its first start
\* sentinel, the end sentinel counts as absent: the answer is the whole input
\* (as it is, or trimmed) and there are no sources.
C9_EndBeforeStartIgnored ==
    \A r \in Slots :
        (/\ req[r].gotText
         /\ FirstStart(req[r].aiResText) # -1
         /\ Occurrences(req[r].aiResText, METADATA_END) # {}
         /\ \A i \in Occurrences(req[r].aiResText, METADATA_END) :
                i < FirstStart(req[r].aiResText))
        => /\ req[r].sources = EmptyArr
           /\ req[r].parsedAnswer \in {req[r].aiResText, Trim(req[r].aiResText)}

\* C10: once the raw text is received the request goes on to record the AI
\* turn and ends with status 200 carrying the decoded answer and sources; it
\* never ends with 500 or 502.
C10_DecodeNeverFails ==
    \A r \in Slots :
        req[r].gotText =>
            /\ req[r].pc \in {"countAI", "insertAI", "done"}
            /\ req[r].pc = "done" =>
                 /\ req[r].status = 200
                 /\ req[r].answer = req[r].parsedAnswer
                 /\ req[r].respSources = req[r].sources

\* A 200 response, the AI turn recorded, to a raw text whose payload is JSON
\* null (reading its sources throws).
C10_Witness ==
    \E r \in Slots :
        /\ req[r].pc = "done" /\ req[r].status = 200 /\ req[r].aiRow # 0
        /\ HasBlock(req[r].aiResText)
        /\ BlockJson(req[r].aiResText).ok
        /\ BlockJson(req[r].aiResText).val.t = "null"

\* req.user carries no identity: undefined, null, or a payload without user_id.
NoIdentity(user) == user.set # "payload" \/ user.user_id = 0

\* C11: a POST /chat or GET /chat request without resolved identity ends with
\* status 401 at once; the step that answers it leaves the ledger as it was,
\* the request writes no row and makes no outbound call.
C11_NoIdentityRejected ==
    [][\A r \in Slots :
         (req'[r].kind # "none" /\ NoIdentity(req'[r].user)) =>
            /\ req'[r].pc = "done" /\ req'[r].status = 401
            /\ req'[r].userRow = 0 /\ req'[r].aiRow = 0 /\ req'[r].calls = 0
            /\ req'[r].respMessages = << >>
            /\ req[r].pc = "idle" => messages' = messages]_vars

\* A POST /chat answered 401 whose token verifies but carries no user_id,
\* while the ledger holds rows.
C11_Witness ==
    \E r \in Slots :
        /\ req[r].kind = "POST" /\ req[r].status = 401
        /\ req[r].user.set = "payload" /\ req[r].user.user_id = 0
        /\ Len(messages) > 0

\* The body has no question, or one made of white space only.
Blank(question) ==
    ~question.present \/ \A i \in 1..Len(question.text) : question.text[i] \in WhiteSpace

InferenceFailed(r) ==
    /\ req[r].kind = "POST" /\ req[r].pc = "done"
    /\ req[r].userRow # 0 /\ req[r].calls > 0 /\ ~req[r].gotText

\* C13: when a POST /chat has recorded its user turn and its inference call
\* has failed, under whatever conversationId, the message list returned to a
\* later GET /chat of the same user contains that user turn.
C13_FailedTurnShown ==
    \A r1, r2 \in Slots :
        (/\ InferenceFailed(r1)
         /\ req[r2].kind = "GET" /\ req[r2].pc = "done" /\ req[r2].status = 200
         /\ req[r2].userId = req[r1].userId) =>
            \E i \in 1..Len(req[r2].respMessages) :
                req[r2].respMessages[i].messageId = req[r1].userRow

\* C14: when the inference call of a POST /chat has failed, the request has
\* ended with status 502, the user row it wrote is in the ledger as it was
\* written, and the request has written no AI row.
C14_InferenceFailureKeepsUserTurn ==
    \A r \in Slots :
        (req[r].calls > 0 /\ ~req[r].gotText /\ req[r].pc # "infer") =>
            /\ req[r].pc = "done" /\ req[r].status = 502
            /\ req[r].userRow \in 1..Len(messages)
            /\ messages[req[r].userRow] =
                 Row(req[r].convId, req[r].userId, req[r].question, "User",
                     req[r].msgIndex)
            /\ req[r].aiRow = 0
            /\ \A i \in (req[r].userRow + 1)..Len(messages) :
                 messages[i].speaker # "AI"

\* A second request of a user ended with 502 on the failure of its call.
C14_Witness ==
    \E r \in Slots :
        /\ InferenceFailed(r) /\ req[r].status = 502
        /\ req[r].userRow > 1
        /\ messages[req[r].userRow].content = <<"h", "i">>

\* The request in slot r is a POST /chat that passed the checks of lines 5-13.
Accepted(r) ==
    /\ req[r].kind = "POST" /\ Authenticated(req[r].user)
    /\ req[r].question # << >>

\* C15: a POST /chat whose user turn is not recorded (its COUNT or its INSERT
\* failed) never calls the inference collaborator, and it ends with status 500.
C15_StorageFailureIsFatal ==
    \A r \in Slots :
        (Accepted(r) /\ req[r].userRow = 0) =>
            /\ req[r].calls = 0 /\ ~req[r].gotText
            /\ req[r].pc \in {"countUser", "insertUser", "done"}
            /\ req[r].pc = "done" =>
                 /\ req[r].status = 500
                 /\ req[r].aiRow = 0

\* A request ended with 500 after its COUNT resolved and its INSERT failed.
C15_Witness ==
    \E r \in Slots :
        /\ Accepted(r) /\ req[r].pc = "done" /\ req[r].status = 500
        /\ req[r].userRow = 0 /\ req[r].msgIndex > 1
        /\ aiUrl

\* C16: a POST /chat that received the collaborator's text and ended without
\* an AI row (the COUNT or the INSERT of the AI turn failed) has answered 200
\* with the decoded answer and sources, and its user row is still recorded.
C16_AiWriteFailureSwallowed ==
    \A r \in Slots :
        (req[r].gotText /\ req[r].pc = "done" /\ req[r].aiRow = 0) =>
            /\ req[r].status = 200
            /\ req[r].answer = ServerDecode(req[r].aiResText).parsedAnswer
            /\ req[r].respSources = ServerDecode(req[r].aiResText).sources
            /\ req[r].userRow \in 1..Len(messages)
            /\ messages[req[r].userRow] =
                 Row(req[r].convId, req[r].userId, req[r].question, "User",
                     req[r].msgIndex)

\* A 200 response with sources whose AI turn's INSERT failed after its COUNT
\* resolved.
C16_Witness ==
    \E r \in Slots :
        /\ req[r].gotText /\ req[r].pc = "done" /\ req[r].status = 200
        /\ req[r].aiRow = 0 /\ req[r].aiIndex > 0
        /\ req[r].respSources # EmptyArr
        /\ req[r].answer # req[r].aiResText

RECURSIVE Ascending(_)
\* The positions S in the order the rows were written.
Ascending(S) ==
    IF S = {} THEN << >>
    ELSE <<MinOf(S)>> \o Ascending(S \ {MinOf(S)})

\* The n most recently written rows of S (all of them when S has fewer), in
\* the order they were written.
LastWritten(S, n) ==
    LET all == Ascending(S)
    IN  SubSeq(all, IF Len(all) > n THEN Len(all) - n + 1 ELSE 1, Len(all))

\* C17: whatever the ledger holds, the context window a POST /chat builds is
\* the min(8, size of scope) most recently written rows of its (user,
\* conversation) scope, in the order they were written.
C17_ContextIsMostRecent ==
    [][\A r \in Slots :
         (req[r].pc = "readContext" /\ req'[r].pc = "infer") =>
            req'[r].messageContext =
                ToContext(messages,
                    LastWritten(ScopeRows(messages, req[r].userId, req[r].convId),
                                ContextLimit))]_vars

\* The requests a and b differ at most in where the token was carried.
SameOutcome(a, b) ==
    [a EXCEPT !.authHeader = b.authHeader, !.cookieToken = b.cookieToken] = b

\* C18: a request that carries a token t in the cookie only resolves to the
\* identity, and is handled up to its first query as, the otherwise identical
\* request that carries t as Authorization: Bearer t only; the arrival does
\* not touch the ledger.
C18_CookieAsBearer ==
    [][\A r \in Slots :
         (/\ req[r].pc = "idle" /\ req'[r].kind # "none"
          /\ req'[r].authHeader = NoHeader /\ req'[r].cookieToken.present) =>
            \A q \in Questions, conv \in ConversationIds :
                Begin(r, req'[r].kind, NoHeader, req'[r].cookieToken, q, conv) =>
                    /\ req'[r].user
                         = OnRequest(Bearer(req'[r].cookieToken), NoToken)
                    /\ SameOutcome(req'[r],
                          Arrived(Fresh(req'[r].kind, Bearer(req'[r].cookieToken),
                                        NoToken),
                                  req'[r].kind, q, conv))
                    /\ messages' = messages]_vars

\* A POST /chat authenticated by the cookie alone that has recorded both turns
\* and answered 200.
C18_Witness ==
    \E r \in Slots :
        /\ req[r].kind = "POST" /\ req[r].authHeader = NoHeader
        /\ req[r].cookieToken = TokenT1
        /\ req[r].status = 200 /\ req[r].userRow # 0 /\ req[r].aiRow # 0

\* The token the request presents does not verify: the Bearer token of the
\* header, or the cookie's token when the header carries no Bearer token.
BadToken(h, c) ==
    \/ h.scheme = "Bearer" /\ h.token.present /\ ~h.token.valid
    \/ h.scheme # "Bearer" /\ c.present /\ ~c.valid

\* The responses of a and b are the same.
SameResponse(a, b) ==
    /\ a.pc = b.pc /\ a.status = b.status /\ a.answer = b.answer
    /\ a.respSources = b.respSources /\ a.respMessages = b.respMessages
    /\ a.userRow = b.userRow /\ a.aiRow = b.aiRow /\ a.calls = b.calls

\* C19: a request whose token is expired, badly signed or malformed is left
\* unauthenticated by the resolver and is answered as the request with no
\* token is: 401 at once, the ledger untouched, no row, no outbound call.
C19_BadTokenAsNoToken ==
    [][\A r \in Slots :
         (/\ req[r].pc = "idle" /\ req'[r].kind # "none"
          /\ BadToken(req'[r].authHeader, req'[r].cookieToken)) =>
            /\ ~Authenticated(req'[r].user)
            /\ req'[r].pc = "done" /\ req'[r].status = 401
            /\ \A q \in Questions, conv \in ConversationIds :
                 SameResponse(req'[r],
                    Arrived(Fresh(req'[r].kind, NoHeader, NoToken),
                            req'[r].kind, q, conv))
            /\ req'[r].userRow = 0 /\ req'[r].calls = 0
            /\ messages' = messages]_vars

\* A POST /chat answered 401 whose Bearer token does not verify, sent with a
\* cookie that does, while the ledger holds rows.
C19_Witness ==
    \E r \in Slots :
        /\ req[r].kind = "POST" /\ req[r].authHeader = Bearer(TokenBad)
        /\ req[r].cookieToken = TokenT1
        /\ req[r].user = UserNull /\ req[r].status = 401
        /\ Len(messages) > 0

\* C20: every message GET /chat returns to an authenticated user, and every
\* element of the context window built on a user's behalf, is a row of the
\* ledger whose user_id is that user's.
C20_MessageIsolation ==
    \A r \in Slots :
        /\ \A i \in 1..Len(req[r].respMessages) :
              /\ req[r].respMessages[i].messageId \in 1..Len(messages)
              /\ messages[req[r].respMessages[i].messageId].user_id
                   = req[r].user.user_id
              /\ messages[req[r].respMessages[i].messageId].content
                   = req[r].respMessages[i].content
        /\ Len(req[r].messageContext) = Len(req[r].lastMessages)
        /\ \A i \in 1..Len(req[r].lastMessages) :
              /\ req[r].lastMessages[i] \in 1..Len(messages)
              /\ messages[req[r].lastMessages[i]].user_id = req[r].user.user_id
              /\ messages[req[r].lastMessages[i]].content
                   = req[r].messageContext[i].content

\* A context window built for one user while the same conversation holds a
\* row of another user.
C20_Witness ==
    \E r \in Slots :
        /\ req[r].lastMessages # << >>
        /\ \E i \in 1..Len(messages) :
              /\ messages[i].user_id # req[r].user.user_id
              /\ messages[i].conversation_id = req[r].convId

\* The statuses POST /chat answers with.
PostStatuses == {200, 400, 401, 500, 502}

\* C21: every POST /chat request eventually sends a response whose status is
\* one of 200, 400, 401, 500, 502, and the response once sent is the only one:
\* the status stays as it is while the request is in its slot.
C21_PostResponds ==
    /\ \A r \in Slots :
         (req[r].kind = "POST") ~>
            (req[r].pc = "done" /\ req[r].status \in PostStatuses)
    /\ [][\A r \in Slots :
            (req[r].kind = "POST" /\ req[r].status # 0) =>
                (req'[r].status = req[r].status \/ req'[r].pc = "idle")]_vars

\* A POST /chat answered 200 after both of its turns were recorded, while
\* another request is in flight.
C21_Witness ==
    \E r1, r2 \in Slots :
        /\ req[r1].kind = "POST" /\ req[r1].pc = "done" /\ req[r1].status = 200
        /\ req[r1].aiRow # 0
        /\ req[r2].kind = "POST" /\ req[r2].pc \notin {"idle", "done"}

\* The order of the steps of a POST /chat request.
StepRank(pc) ==
    CASE pc = "idle" -> 0
      [] pc = "countUser" -> 1
      [] pc = "insertUser" -> 2
      [] pc = "readContext" -> 3
      [] pc = "infer" -> 4
      [] pc = "countAI" -> 5
      [] pc = "insertAI" -> 6
      [] OTHER -> 7

\* C22: a POST /chat request takes its steps in the order AuthCheck,
\* RecordUserTurn, BuildContext, InvokeInference, DecodeReply, RecordAiTurn,
\* Respond: the collaborator is called only once the request's user row is in
\* the ledger, an AI row is written only once the call has returned its text
\* and before the response is sent, and a 200 follows a returned text only.
C22_StepOrder ==
    [][\A r \in Slots :
         (req[r].kind = "POST" /\ req'[r].kind = "POST") =>
            /\ StepRank(req'[r].pc) >= StepRank(req[r].pc)
            /\ req'[r].calls > req[r].calls =>
                 /\ req[r].userRow \in 1..Len(messages)
                 /\ messages[req[r].userRow].speaker = "User"
                 /\ ~req[r].gotText /\ req[r].aiRow = 0
            /\ (~req[r].gotText /\ req'[r].gotText) => req[r].calls > 0
            /\ req'[r].aiRow # req[r].aiRow =>
                 /\ req[r].gotText /\ req[r].status = 0
                 /\ req'[r].aiRow = Len(messages) + 1
                 /\ req'[r].aiRow > req[r].userRow
            /\ (req[r].status = 0 /\ req'[r].status = 200) =>
                 req[r].gotText /\ req[r].userRow # 0]_vars

\* A second request of a user answered 200 with both of its turns recorded,
\* the AI row right after the user row.
C22_Witness ==
    \E r \in Slots :
        /\ req[r].kind = "POST" /\ req[r].status = 200
        /\ req[r].userRow > 1 /\ req[r].aiRow = req[r].userRow + 1
        /\ req[r].calls = 1

\* C23: a POST /chat request that has ended with status 400, 401 or 500 has
\* appended no row to the ledger.
C23_EarlyFailureWritesNothing ==
    \A r \in Slots :
        (/\ req[r].kind = "POST" /\ req[r].pc = "done"
         /\ req[r].status \in {400, 401, 500}) =>
            req[r].userRow = 0 /\ req[r].aiRow = 0

\* C24: a POST /chat request ends with status 502 only when its outbound call
\* to the collaborator was made and failed; a failure of the context query is
\* not reported as 502.
C24_BadGatewayMeansInferenceFailed ==
    \A r \in Slots :
        (req[r].kind = "POST" /\ req[r].pc = "done" /\ req[r].status = 502) =>
            req[r].calls > 0 /\ ~req[r].gotText

\* C25: a POST /chat request calls the inference collaborator at most once;
\* after the call has failed the request has ended with 502, no second call
\* made.
C25_SingleAttempt ==
    \A r \in Slots :
        /\ req[r].calls <= 1
        /\ req[r].pc = "infer" => req[r].calls = 1
        /\ (req[r].calls = 1 /\ ~req[r].gotText /\ req[r].pc # "infer") =>
             req[r].pc = "done" /\ req[r].status = 502

\* A request ended with 502 after its one call failed, the ledger holding an
\* earlier exchange.
C25_Witness ==
    \E r \in Slots :
        /\ InferenceFailed(r) /\ req[r].calls = 1 /\ req[r].status = 502
        /\ Len(req[r].messageContext) > 1

\* C26: the ledger is append-only. Every step keeps the rows written so far,
\* each with all its fields, and adds at most one row; a GET /chat request
\* adds none; a row added is the one User row of a POST /chat that had none,
\* or its one AI row, and a request's rows stay its rows.
C26_AppendOnly ==
    [][/\ Len(messages') \in {Len(messages), Len(messages) + 1}
       /\ SubSeq(messages', 1, Len(messages)) = messages
       /\ \A r \in Slots :
            /\ (req[r].kind = "GET" /\ req'[r] # req[r]) => messages' = messages
            /\ (req[r].userRow # 0 /\ req'[r].pc # "idle") =>
                 req'[r].userRow = req[r].userRow
            /\ (req[r].aiRow # 0 /\ req'[r].pc # "idle") =>
                 req'[r].aiRow = req[r].aiRow
       /\ Len(messages') = Len(messages) + 1 =>
            \E r \in Slots :
                /\ req[r].kind = "POST"
                /\ \/ /\ messages'[Len(messages')].speaker = "User"
                      /\ req[r].userRow = 0 /\ req[r].aiRow = 0
                      /\ req'[r].userRow = Len(messages')
                   \/ /\ messages'[Len(messages')].speaker = "AI"
                      /\ req[r].userRow # 0 /\ req[r].aiRow = 0
                      /\ req'[r].aiRow = Len(messages')]_vars

\* Two overlapping POST /chat requests: both have written their User row and
\* one of them its AI row, after the other's User row.
C26_Witness ==
    \E r1, r2 \in Slots :
        /\ r1 # r2
        /\ req[r1].kind = "POST" /\ req[r1].userRow # 0 /\ req[r1].aiRow # 0
        /\ req[r2].kind = "POST" /\ req[r2].userRow # 0 /\ req[r2].aiRow = 0
        /\ req[r2].userRow < req[r1].aiRow
        /\ Len(messages) = 3

\* The role the collaborator is given for a row of that speaker.
RoleOf(speaker) == IF speaker = "User" THEN "user" ELSE "assistant"

\* C27: the context window of a POST /chat has at most 8 elements; each is a
\* row of the request's own user_id and conversation_id, the conversation_id
\* being the client's, or "default-session" when the client sent none; its
\* role is "user" for a User row and "assistant" otherwise, its content the
\* row's.
C27_ContextWindowShape ==
    [][\A r \in Slots :
         /\ (req[r].pc = "idle" /\ req'[r].pc = "countUser") =>
               \A conv \in ConversationIds :
                   Begin(r, "POST", req'[r].authHeader, req'[r].cookieToken,
                         Question(req'[r].question), conv) =>
                       req'[r].convId
                         = (IF conv = "" THEN "default-session" ELSE conv)
         /\ Len(req'[r].messageContext) <= 8
         /\ Len(req'[r].messageContext) = Len(req'[r].lastMessages)
         /\ \A i \in 1..Len(req'[r].lastMessages) :
               LET row == messages'[req'[r].lastMessages[i]]
               IN  /\ row.user_id = req'[r].user.user_id
                   /\ row.conversation_id = req'[r].convId
                   /\ req'[r].messageContext[i].role = RoleOf(row.speaker)
                   /\ req'[r].messageContext[i].content = row.content
         /\ \A i, j \in 1..Len(req'[r].lastMessages) :
               i # j => req'[r].lastMessages[i] # req'[r].lastMessages[j]]_vars

\* A window of 8 elements built from a scope of more than 8 rows, while the
\* ledger holds rows of another user and of another conversation.
C27_Witness ==
    \E r \in Slots :
        /\ Len(req[r].messageContext) = 8
        /\ Cardinality(ScopeRows(messages, req[r].userId, req[r].convId)) > 8
        /\ \E i \in 1..Len(messages) : messages[i].user_id # req[r].userId
        /\ \E i \in 1..Len(messages) :
              /\ messages[i].user_id = req[r].userId
              /\ messages[i].conversation_id # req[r].convId

\* The ledger one completed exchange leaves behind is the one ContextInit
\* starts from.
HistoryReached == messages = History(<< >>, 1)

\* C28: a request that carries an Authorization: Bearer t1 header and a token
\* cookie t2 resolves to the identity of t1 alone, and is handled up to its
\* first query as the otherwise identical request with that header and no
\* cookie, whether t1 verifies or not; the arrival does not touch the ledger.
C28_HeaderBeforeCookie ==
    [][\A r \in Slots :
         (/\ req[r].pc = "idle" /\ req'[r].kind # "none"
          /\ req'[r].authHeader.scheme = "Bearer"
          /\ req'[r].cookieToken.present) =>
            \A q \in Questions, conv \in ConversationIds :
                Begin(r, req'[r].kind, req'[r].authHeader, req'[r].cookieToken,
                      q, conv) =>
                    /\ req'[r].user = OnRequest(req'[r].authHeader, NoToken)
                    /\ SameOutcome(req'[r],
                          Arrived(Fresh(req'[r].kind, req'[r].authHeader, NoToken),
                                  req'[r].kind, q, conv))
                    /\ messages' = messages]_vars

\* A POST /chat with the Bearer token of user 1 and the cookie of user 2 that
\* has recorded its user turn as user 1.
C28_Witness ==
    \E r \in Slots :
        /\ req[r].kind = "POST" /\ req[r].authHeader = Bearer(TokenT1)
        /\ req[r].cookieToken = TokenT2
        /\ req[r].userRow # 0 /\ messages[req[r].userRow].user_id = 1

\* The source list a response carries for the names srcs.
ListOf(srcs) ==
    [t |-> "arr", v |-> [i \in 1..Len(srcs) |-> [t |-> "str", v |-> srcs[i]]]]

\* C29: for a payload that parses after normalization, the decoded source
\* list is the payload's sources, the same strings in the same order, and it
\* is empty when the payload has no sources field: the rewriting of quotes and
\* of True, False, None leaves the text of every source as it was.
C29_SourcesPreserved ==
    \A r \in Slots :
        req[r].gotText =>
            /\ \A srcs \in SourceLists(MaxSources) :
                  req[r].aiResText = <<"h","i"," ">> \o Block(PayloadOf(srcs)) =>
                      req[r].sources = ListOf(srcs)
            /\ req[r].aiResText = <<"h","i"," ">> \o Block(PayloadNoSources) =>
                  req[r].sources = EmptyArr

\* The rows of user u among the first i rows of the ledger.
WrittenBy(u, i) ==
    { j \in 1..i : messages[j].user_id = u }

\* C30: with no two requests of one user overlapping, the message_index of
\* every row is the number of rows its user has written up to and including
\* it, in all conversations together: the indexes of one user, in write
\* order, are 1, 2, ..., M.
C30_UserWideIndex ==
    \A i \in 1..Len(messages) :
        messages[i].message_index = Cardinality(WrittenBy(messages[i].user_id, i))

\* One user has written four rows in two conversations, indexed 1 to 4.
C30_Witness ==
    /\ Len(messages) = 4
    /\ \A i \in 1..4 : messages[i].user_id = messages[1].user_id
    /\ messages[1].conversation_id # messages[3].conversation_id
    /\ messages[4].message_index = 4

\* The rows user u has written after row i of the ledger.
WrittenAfter(u, i) ==
    { j \in (i + 1)..Len(messages) : messages[j].user_id = u }

\* C31: when a POST /chat request reads its context and no other request of
\* its user has written a row since this request's own user row, the window
\* it sends is non-empty and ends with {role: "user", content: its question}.
C31_OwnQuestionLast ==
    [][\A r \in Slots :
         (/\ req[r].pc = "readContext" /\ req'[r].pc = "infer"
          /\ WrittenAfter(req[r].userId, req[r].userRow) = {}) =>
            /\ req'[r].messageContext # << >>
            /\ req'[r].messageContext[Len(req'[r].messageContext)] =
                 [role |-> "user", content |-> req[r].question]]_vars

\* C32: for every raw text, the client's parseRAGResponse applied to it gives
\* the answer and the sources the server's decode gave.
C32_ClientDecodesAsServer ==
    \A r \in Slots :
        req[r].gotText =>
            /\ ParseRAGResponse(req[r].aiResText).answer = req[r].parsedAnswer
            /\ ParseRAGResponse(req[r].aiResText).sources = req[r].sources

\* C33: the chat page's parseRAGResponse returns the answer of the server's
\* response as it is, with no sources.
C33_SecondDecodeChangesNothing ==
    \A r \in Slots :
        req[r].botMsg = "answer" =>
            /\ req[r].parsed.answer = req[r].answer
            /\ req[r].parsed.sources = EmptyArr

====
